---- MODULE Spec2Model ----
(***************************************************************************)
(* Model of pkg/crc/preflight/preflight_checks_network_linux.go: the       *)
(* NetworkManager / dnsmasq / systemd-resolved preflight checks, their     *)
(* fix and cleanup operations, run one at a time against a host made of    *)
(* three configuration files and the presence of 'nmcli' on the PATH.      *)
(*                                                                         *)
(* Every operation is an operator from the host state and the outcomes of  *)
(* the external primitives it calls to a result record                     *)
(*    [err: did it return a non-nil error, fs: the filesystem afterwards,  *)
(*     calls: the primitive calls it made, in order, with their results].  *)
(***************************************************************************)
EXTENDS Integers, Sequences, FiniteSets, TLC

VARIABLES fs, nmcli, op, err, calls, prevOp, prevErr

vars == <<fs, nmcli, op, err, calls, prevOp, prevErr>>

(* Number of file contents, other than the three expected ones, that a     *)
(* file found on the host may hold.                                        *)
NumForeignContents == 1

---------------------------------------------------------------------------
(* Paths, contents and permission modes.                                   *)

crcNetworkManagerRootPath == "/etc/NetworkManager"

crcDnsmasqConfigPath == "/etc/NetworkManager/dnsmasq.d/crc.conf"

crcDnsmasqConfig ==
    "server=/apps-crc.testing/192.168.130.11\nserver=/crc.testing/192.168.130.11\n"

crcNetworkManagerConfigPath == "/etc/NetworkManager/conf.d/crc-nm-dnsmasq.conf"

crcNetworkManagerConfig == "[main]\ndns=dnsmasq\n"

crcNetworkManagerDispatcherPath ==
    "/etc/NetworkManager/dispatcher.d/pre-up.d/99-crc.sh"

crcNetworkManagerDispatcherConfig ==
    "#!/bin/sh\n# This is a NetworkManager dispatcher script to configure split DNS for\n# the 'crc' libvirt network.\n# The corresponding crc bridge is recreated each time the system reboots, so\n# it cannot be configured permanently through NetworkManager.\n# Changing DNS settings with nmcli requires the connection to go down/up,\n# so we directly make the change using resolvectl\n\nexport LC_ALL=C\n\nif [ \"$1\" = crc ]; then\n        resolvectl domain \"$1\" ~testing\n        resolvectl dns \"$1\" 192.168.130.11\n        resolvectl default-route \"$1\" false\nfi\n\nexit 0\n"

(* 0644 and 0755 *)
PermConfig == 420

PermDispatcher == 493

Paths ==
    {crcDnsmasqConfigPath, crcNetworkManagerConfigPath,
     crcNetworkManagerDispatcherPath}

ForeignContents == {"foreign" \o ToString(i) : i \in 1..NumForeignContents}

NoFile == [exists |-> FALSE, content |-> "", mode |-> 0]

File(content, mode) == [exists |-> TRUE, content |-> content, mode |-> mode]

Call(prim, arg, res) == [prim |-> prim, arg |-> arg, res |-> res]

OkErr(ok) == IF ok THEN "ok" ELSE "err"

---------------------------------------------------------------------------
(* External primitives.                                                    *)

(* crcos.WriteToFileAsRoot: creates or overwrites the file with the given  *)
(* content and mode when it succeeds.                                      *)
WriteToFileAsRoot(f, content, path, perms, ok) ==
    IF ok THEN [f EXCEPT ![path] = File(content, perms)] ELSE f

(* crcos.RemoveFileAsRoot: the file is gone when it succeeds.              *)
RemoveFileAsRoot(f, path, ok) ==
    IF ok THEN [f EXCEPT ![path] = NoFile] ELSE f

(* crcos.FileContentMatches: "ok" iff the file exists with exactly the     *)
(* expected bytes.                                                         *)
FileContentMatches(f, path, expected) ==
    OkErr(f[path].exists /\ f[path].content = expected)

(* systemd states a status query can report.                               *)
States == {"Running", "Stopped", "NotFound"}

(* Commander.Status: a state, or "err" when the query itself fails.        *)
StatusResults == States \cup {"err"}

(* os.Stat: "ok" needs the file, "notexist" needs its absence; any other   *)
(* error (EACCES on a parent directory, ...) is possible in both cases.    *)
StatResults(f, path) ==
    IF f[path].exists THEN {"ok", "othererr"} ELSE {"notexist", "othererr"}

IsNotExist(statRes) == statRes = "notexist"

(* exec.LookPath("nmcli") *)
LookPath(nm) == OkErr(nm)

---------------------------------------------------------------------------
(* Operations of preflight_checks_network_linux.go.                        *)

Result(e, f, c) == [err |-> e, fs |-> f, calls |-> c]

(* Variants of fixNetworkManagerConfigFile with a slip in its error       *)
(* handling: the write error dropped, the reload error dropped, and a      *)
(* refusal to rewrite a file that is already as expected.                  *)
fixNetworkManagerConfigFile_IgnoresWriteError(f, path, content, perms, writeOk, reloadOk) ==
    LET written == WriteToFileAsRoot(f, content, path, perms, writeOk)
        cWrite  == Call("WriteToFileAsRoot", path, OkErr(writeOk))
        cReload == Call("Reload", "NetworkManager", OkErr(reloadOk))
    IN  IF ~reloadOk
        THEN Result(TRUE, written, <<cWrite, cReload>>)
        ELSE Result(FALSE, written, <<cWrite, cReload>>)

fixNetworkManagerConfigFile_IgnoresReloadError(f, path, content, perms, writeOk, reloadOk) ==
    LET written == WriteToFileAsRoot(f, content, path, perms, writeOk)
        cWrite  == Call("WriteToFileAsRoot", path, OkErr(writeOk))
        cReload == Call("Reload", "NetworkManager", OkErr(reloadOk))
    IN  IF ~writeOk
        THEN Result(TRUE, written, <<cWrite>>)
        ELSE Result(FALSE, written, <<cWrite, cReload>>)

fixNetworkManagerConfigFile_FailsIfPresent(f, path, content, perms, writeOk, reloadOk) ==
    LET written == WriteToFileAsRoot(f, content, path, perms, writeOk)
        cWrite  == Call("WriteToFileAsRoot", path, OkErr(writeOk))
        cReload == Call("Reload", "NetworkManager", OkErr(reloadOk))
    IN  IF f[path] = File(content, perms)
        THEN Result(TRUE, f, <<>>)
        ELSE IF ~writeOk
             THEN Result(TRUE, written, <<cWrite>>)
             ELSE IF ~reloadOk
                  THEN Result(TRUE, written, <<cWrite, cReload>>)
                  ELSE Result(FALSE, written, <<cWrite, cReload>>)

(* Variant that requests the reload before it writes the file.            *)
fixNetworkManagerConfigFile_ReloadsFirst(f, path, content, perms, writeOk, reloadOk) ==
    LET written == WriteToFileAsRoot(f, content, path, perms, writeOk)
        cWrite  == Call("WriteToFileAsRoot", path, OkErr(writeOk))
        cReload == Call("Reload", "NetworkManager", OkErr(reloadOk))
    IN  IF ~reloadOk
        THEN Result(TRUE, f, <<cReload>>)
        ELSE IF ~writeOk
             THEN Result(TRUE, written, <<cReload, cWrite>>)
             ELSE Result(FALSE, written, <<cReload, cWrite>>)

fixNetworkManagerConfigFile(f, path, content, perms, writeOk, reloadOk) ==
    LET written == WriteToFileAsRoot(f, content, path, perms, writeOk)
        cWrite  == Call("WriteToFileAsRoot", path, OkErr(writeOk))
        cReload == Call("Reload", "NetworkManager", OkErr(reloadOk))
    IN  IF ~writeOk
        THEN Result(TRUE, written, <<cWrite>>)
        ELSE IF ~reloadOk
             THEN Result(TRUE, written, <<cWrite, cReload>>)
             ELSE Result(FALSE, written, <<cWrite, cReload>>)

checkNetworkManagerInstalled(f, nm) ==
    LET cLook == Call("LookPath", "nmcli", LookPath(nm))
    IN  IF LookPath(nm) # "ok"
        THEN Result(TRUE, f, <<cLook>>)
        ELSE Result(FALSE, f, <<cLook>>)

(* Variants of removeNetworkManagerConfigFile with a slip: the stat test   *)
(* inverted, the 'nmcli' precondition dropped, the stat test dropped, and  *)
(* the remove error dropped.                                               *)
removeNetworkManagerConfigFile_StatInverted(f, nm, path, statRes, removeOk, reloadOk) ==
    LET inst    == checkNetworkManagerInstalled(f, nm)
        removed == RemoveFileAsRoot(f, path, removeOk)
        cStat   == Call("Stat", path, statRes)
        cRemove == Call("RemoveFileAsRoot", path, OkErr(removeOk))
        cReload == Call("Reload", "NetworkManager", OkErr(reloadOk))
    IN  IF inst.err
        THEN Result(FALSE, f, inst.calls)
        ELSE IF IsNotExist(statRes)
             THEN IF ~removeOk
                  THEN Result(TRUE, removed, inst.calls \o <<cStat, cRemove>>)
                  ELSE IF ~reloadOk
                       THEN Result(TRUE, removed,
                                   inst.calls \o <<cStat, cRemove, cReload>>)
                       ELSE Result(FALSE, removed,
                                   inst.calls \o <<cStat, cRemove, cReload>>)
             ELSE Result(FALSE, f, inst.calls \o <<cStat>>)

removeNetworkManagerConfigFile_NoPrecondition(f, nm, path, statRes, removeOk, reloadOk) ==
    LET inst    == checkNetworkManagerInstalled(f, nm)
        removed == RemoveFileAsRoot(f, path, removeOk)
        cStat   == Call("Stat", path, statRes)
        cRemove == Call("RemoveFileAsRoot", path, OkErr(removeOk))
        cReload == Call("Reload", "NetworkManager", OkErr(reloadOk))
    IN  IF ~IsNotExist(statRes)
        THEN IF ~removeOk
             THEN Result(TRUE, removed, inst.calls \o <<cStat, cRemove>>)
             ELSE IF ~reloadOk
                  THEN Result(TRUE, removed,
                              inst.calls \o <<cStat, cRemove, cReload>>)
                  ELSE Result(FALSE, removed,
                              inst.calls \o <<cStat, cRemove, cReload>>)
        ELSE Result(FALSE, f, inst.calls \o <<cStat>>)

removeNetworkManagerConfigFile_RemovesUnconditionally(f, nm, path, statRes, removeOk, reloadOk) ==
    LET inst    == checkNetworkManagerInstalled(f, nm)
        removed == RemoveFileAsRoot(f, path, removeOk)
        cStat   == Call("Stat", path, statRes)
        cRemove == Call("RemoveFileAsRoot", path, OkErr(removeOk))
        cReload == Call("Reload", "NetworkManager", OkErr(reloadOk))
    IN  IF inst.err
        THEN Result(FALSE, f, inst.calls)
        ELSE IF ~removeOk
             THEN Result(TRUE, removed, inst.calls \o <<cStat, cRemove>>)
             ELSE IF ~reloadOk
                  THEN Result(TRUE, removed,
                              inst.calls \o <<cStat, cRemove, cReload>>)
                  ELSE Result(FALSE, removed,
                              inst.calls \o <<cStat, cRemove, cReload>>)

removeNetworkManagerConfigFile_IgnoresRemoveError(f, nm, path, statRes, removeOk, reloadOk) ==
    LET inst    == checkNetworkManagerInstalled(f, nm)
        removed == RemoveFileAsRoot(f, path, removeOk)
        cStat   == Call("Stat", path, statRes)
        cRemove == Call("RemoveFileAsRoot", path, OkErr(removeOk))
        cReload == Call("Reload", "NetworkManager", OkErr(reloadOk))
    IN  IF inst.err
        THEN Result(FALSE, f, inst.calls)
        ELSE IF ~IsNotExist(statRes)
             THEN IF ~reloadOk
                  THEN Result(TRUE, removed,
                              inst.calls \o <<cStat, cRemove, cReload>>)
                  ELSE Result(FALSE, removed,
                              inst.calls \o <<cStat, cRemove, cReload>>)
             ELSE Result(FALSE, f, inst.calls \o <<cStat>>)

(* Variants: the reload requested also when stat reports no file, and a   *)
(* removal restricted to files that do not hold foreign content.           *)
removeNetworkManagerConfigFile_ReloadsWhenAbsent(f, nm, path, statRes, removeOk, reloadOk) ==
    LET inst    == checkNetworkManagerInstalled(f, nm)
        removed == RemoveFileAsRoot(f, path, removeOk)
        cStat   == Call("Stat", path, statRes)
        cRemove == Call("RemoveFileAsRoot", path, OkErr(removeOk))
        cReload == Call("Reload", "NetworkManager", OkErr(reloadOk))
    IN  IF inst.err
        THEN Result(FALSE, f, inst.calls)
        ELSE IF ~IsNotExist(statRes)
             THEN IF ~removeOk
                  THEN Result(TRUE, removed, inst.calls \o <<cStat, cRemove>>)
                  ELSE IF ~reloadOk
                       THEN Result(TRUE, removed,
                                   inst.calls \o <<cStat, cRemove, cReload>>)
                       ELSE Result(FALSE, removed,
                                   inst.calls \o <<cStat, cRemove, cReload>>)
             ELSE Result(~reloadOk, f, inst.calls \o <<cStat, cReload>>)

removeNetworkManagerConfigFile_KeepsForeignFiles(f, nm, path, statRes, removeOk, reloadOk) ==
    LET inst    == checkNetworkManagerInstalled(f, nm)
        removed == RemoveFileAsRoot(f, path, removeOk)
        cStat   == Call("Stat", path, statRes)
        cRemove == Call("RemoveFileAsRoot", path, OkErr(removeOk))
        cReload == Call("Reload", "NetworkManager", OkErr(reloadOk))
    IN  IF inst.err
        THEN Result(FALSE, f, inst.calls)
        ELSE IF ~IsNotExist(statRes) /\ f[path].content \notin ForeignContents
             THEN IF ~removeOk
                  THEN Result(TRUE, removed, inst.calls \o <<cStat, cRemove>>)
                  ELSE IF ~reloadOk
                       THEN Result(TRUE, removed,
                                   inst.calls \o <<cStat, cRemove, cReload>>)
                       ELSE Result(FALSE, removed,
                                   inst.calls \o <<cStat, cRemove, cReload>>)
             ELSE Result(FALSE, f, inst.calls \o <<cStat>>)

removeNetworkManagerConfigFile(f, nm, path, statRes, removeOk, reloadOk) ==
    LET inst    == checkNetworkManagerInstalled(f, nm)
        removed == RemoveFileAsRoot(f, path, removeOk)
        cStat   == Call("Stat", path, statRes)
        cRemove == Call("RemoveFileAsRoot", path, OkErr(removeOk))
        cReload == Call("Reload", "NetworkManager", OkErr(reloadOk))
    IN  IF inst.err
        THEN Result(FALSE, f, inst.calls)
        ELSE IF ~IsNotExist(statRes)
             THEN IF ~removeOk
                  THEN Result(TRUE, removed, inst.calls \o <<cStat, cRemove>>)
                  ELSE IF ~reloadOk
                       THEN Result(TRUE, removed,
                                   inst.calls \o <<cStat, cRemove, cReload>>)
                       ELSE Result(FALSE, removed,
                                   inst.calls \o <<cStat, cRemove, cReload>>)
             ELSE Result(FALSE, f, inst.calls \o <<cStat>>)

(* Variant of checkCrcDnsmasqConfigFile that rewrites a file it finds      *)
(* wrong instead of only reporting it.                                     *)
checkCrcDnsmasqConfigFile_Repairs(f) ==
    LET m == FileContentMatches(f, crcDnsmasqConfigPath, crcDnsmasqConfig)
        c == Call("FileContentMatches", crcDnsmasqConfigPath, m)
    IN  IF m # "ok"
        THEN Result(TRUE,
                    WriteToFileAsRoot(f, crcDnsmasqConfig, crcDnsmasqConfigPath,
                                      PermConfig, TRUE),
                    <<c>>)
        ELSE Result(FALSE, f, <<c>>)

checkCrcDnsmasqConfigFile(f) ==
    LET m == FileContentMatches(f, crcDnsmasqConfigPath, crcDnsmasqConfig)
        c == Call("FileContentMatches", crcDnsmasqConfigPath, m)
    IN  IF m # "ok" THEN Result(TRUE, f, <<c>>) ELSE Result(FALSE, f, <<c>>)

fixCrcDnsmasqConfigFile(f, writeOk, reloadOk) ==
    LET r == fixNetworkManagerConfigFile(f, crcDnsmasqConfigPath,
                                         crcDnsmasqConfig, PermConfig,
                                         writeOk, reloadOk)
    IN  IF r.err THEN r ELSE Result(FALSE, r.fs, r.calls)

(* Variant that removes the file of the NetworkManager config check.      *)
removeCrcDnsmasqConfigFile_WrongPath(f, nm, statRes, removeOk, reloadOk) ==
    removeNetworkManagerConfigFile(f, nm, crcNetworkManagerConfigPath,
                                   statRes, removeOk, reloadOk)

removeCrcDnsmasqConfigFile(f, nm, statRes, removeOk, reloadOk) ==
    removeNetworkManagerConfigFile(f, nm, crcDnsmasqConfigPath,
                                   statRes, removeOk, reloadOk)

checkCrcNetworkManagerConfig(f) ==
    LET m == FileContentMatches(f, crcNetworkManagerConfigPath,
                                crcNetworkManagerConfig)
        c == Call("FileContentMatches", crcNetworkManagerConfigPath, m)
    IN  IF m # "ok" THEN Result(TRUE, f, <<c>>) ELSE Result(FALSE, f, <<c>>)

fixCrcNetworkManagerConfig(f, writeOk, reloadOk) ==
    LET r == fixNetworkManagerConfigFile(f, crcNetworkManagerConfigPath,
                                         crcNetworkManagerConfig, PermConfig,
                                         writeOk, reloadOk)
    IN  IF r.err THEN r ELSE Result(FALSE, r.fs, r.calls)

removeCrcNetworkManagerConfig(f, nm, statRes, removeOk, reloadOk) ==
    removeNetworkManagerConfigFile(f, nm, crcNetworkManagerConfigPath,
                                   statRes, removeOk, reloadOk)

checkSystemdServiceRunning(f, service, status) ==
    LET c == Call("Status", service, status)
    IN  IF status = "err"
        THEN Result(TRUE, f, <<c>>)
        ELSE IF status # "Running"
             THEN Result(TRUE, f, <<c>>)
             ELSE Result(FALSE, f, <<c>>)

checkSystemdNetworkdIsNotRunning(f, status) ==
    LET r == checkSystemdServiceRunning(f, "systemd-networkd.service", status)
    IN  IF ~r.err THEN Result(TRUE, r.fs, r.calls)
        ELSE Result(FALSE, r.fs, r.calls)

checkNetworkManagerIsRunning(f, status) ==
    checkSystemdServiceRunning(f, "NetworkManager.service", status)

checkSystemdResolvedIsRunning(f, status) ==
    checkSystemdServiceRunning(f, "systemd-resolved.service", status)

checkCrcNetworkManagerDispatcherFile(f) ==
    LET m == FileContentMatches(f, crcNetworkManagerDispatcherPath,
                                crcNetworkManagerDispatcherConfig)
        c == Call("FileContentMatches", crcNetworkManagerDispatcherPath, m)
    IN  IF m # "ok" THEN Result(TRUE, f, <<c>>) ELSE Result(FALSE, f, <<c>>)

fixCrcNetworkManagerDispatcherFile(f, writeOk, reloadOk) ==
    LET r == fixNetworkManagerConfigFile(f, crcNetworkManagerDispatcherPath,
                                         crcNetworkManagerDispatcherConfig,
                                         PermDispatcher, writeOk, reloadOk)
    IN  IF r.err THEN r ELSE Result(FALSE, r.fs, r.calls)

removeCrcNetworkManagerDispatcherFile(f, nm, statRes, removeOk, reloadOk) ==
    removeNetworkManagerConfigFile(f, nm, crcNetworkManagerDispatcherPath,
                                   statRes, removeOk, reloadOk)

---------------------------------------------------------------------------
(* The state machine: a runner calls one operation at a time.              *)

(* What a file found on the host at a path may be before any operation:    *)
(* absent, the expected content under either mode, or a foreign content.   *)
(* No operation reads the mode of a file, so foreign files come with one.  *)
ExpectedContent(path) ==
    IF path = crcDnsmasqConfigPath THEN crcDnsmasqConfig
    ELSE IF path = crcNetworkManagerConfigPath THEN crcNetworkManagerConfig
    ELSE crcNetworkManagerDispatcherConfig

HostFiles(path) ==
    {NoFile}
    \cup {File(ExpectedContent(path), m) : m \in {PermConfig, PermDispatcher}}
    \cup {File(c, PermConfig) : c \in ForeignContents}

Init ==
    /\ fs \in [Paths -> UNION {HostFiles(p) : p \in Paths}]
    /\ \A p \in Paths : fs[p] \in HostFiles(p)
    /\ nmcli \in BOOLEAN
    /\ op = "none"
    /\ err = FALSE
    /\ calls = <<>>
    /\ prevOp = "none"
    /\ prevErr = FALSE

(* One call of the operation `name` with result r.                         *)
Step(name, r) ==
    /\ op' = name
    /\ err' = r.err
    /\ fs' = r.fs
    /\ calls' = r.calls
    /\ prevOp' = op
    /\ prevErr' = err
    /\ UNCHANGED nmcli

CallCheckSystemdNetworkdIsNotRunning ==
    \E status \in StatusResults :
        Step("checkSystemdNetworkdIsNotRunning",
             checkSystemdNetworkdIsNotRunning(fs, status))

CallCheckNetworkManagerInstalled ==
    Step("checkNetworkManagerInstalled", checkNetworkManagerInstalled(fs, nmcli))

CallCheckNetworkManagerIsRunning ==
    \E status \in StatusResults :
        Step("checkNetworkManagerIsRunning",
             checkNetworkManagerIsRunning(fs, status))

CallCheckSystemdResolvedIsRunning ==
    \E status \in StatusResults :
        Step("checkSystemdResolvedIsRunning",
             checkSystemdResolvedIsRunning(fs, status))

CallCheckCrcNetworkManagerConfig ==
    Step("checkCrcNetworkManagerConfig", checkCrcNetworkManagerConfig(fs))

CallFixCrcNetworkManagerConfig ==
    \E writeOk, reloadOk \in BOOLEAN :
        Step("fixCrcNetworkManagerConfig",
             fixCrcNetworkManagerConfig(fs, writeOk, reloadOk))

CallRemoveCrcNetworkManagerConfig ==
    \E statRes \in StatResults(fs, crcNetworkManagerConfigPath) :
    \E removeOk, reloadOk \in BOOLEAN :
        Step("removeCrcNetworkManagerConfig",
             removeCrcNetworkManagerConfig(fs, nmcli, statRes, removeOk, reloadOk))

CallCheckCrcDnsmasqConfigFile ==
    Step("checkCrcDnsmasqConfigFile", checkCrcDnsmasqConfigFile(fs))

(* Variant of the fix call that takes over the 'nmcli' precondition of    *)
(* the cleanup: without 'nmcli' it does nothing and reports success.       *)
CallFixCrcDnsmasqConfigFile_SkipsWithoutNmcli ==
    \E writeOk, reloadOk \in BOOLEAN :
        Step("fixCrcDnsmasqConfigFile",
             IF checkNetworkManagerInstalled(fs, nmcli).err
             THEN Result(FALSE, fs, checkNetworkManagerInstalled(fs, nmcli).calls)
             ELSE fixCrcDnsmasqConfigFile(fs, writeOk, reloadOk))

CallFixCrcDnsmasqConfigFile ==
    \E writeOk, reloadOk \in BOOLEAN :
        Step("fixCrcDnsmasqConfigFile",
             fixCrcDnsmasqConfigFile(fs, writeOk, reloadOk))

CallRemoveCrcDnsmasqConfigFile ==
    \E statRes \in StatResults(fs, crcDnsmasqConfigPath) :
    \E removeOk, reloadOk \in BOOLEAN :
        Step("removeCrcDnsmasqConfigFile",
             removeCrcDnsmasqConfigFile(fs, nmcli, statRes, removeOk, reloadOk))

CallCheckCrcNetworkManagerDispatcherFile ==
    Step("checkCrcNetworkManagerDispatcherFile",
         checkCrcNetworkManagerDispatcherFile(fs))

CallFixCrcNetworkManagerDispatcherFile ==
    \E writeOk, reloadOk \in BOOLEAN :
        Step("fixCrcNetworkManagerDispatcherFile",
             fixCrcNetworkManagerDispatcherFile(fs, writeOk, reloadOk))

CallRemoveCrcNetworkManagerDispatcherFile ==
    \E statRes \in StatResults(fs, crcNetworkManagerDispatcherPath) :
    \E removeOk, reloadOk \in BOOLEAN :
        Step("removeCrcNetworkManagerDispatcherFile",
             removeCrcNetworkManagerDispatcherFile(fs, nmcli, statRes,
                                                   removeOk, reloadOk))

Next ==
    \/ CallCheckSystemdNetworkdIsNotRunning
    \/ CallCheckNetworkManagerInstalled
    \/ CallCheckNetworkManagerIsRunning
    \/ CallCheckSystemdResolvedIsRunning
    \/ CallCheckCrcNetworkManagerConfig
    \/ CallFixCrcNetworkManagerConfig
    \/ CallRemoveCrcNetworkManagerConfig
    \/ CallCheckCrcDnsmasqConfigFile
    \/ CallFixCrcDnsmasqConfigFile
    \/ CallRemoveCrcDnsmasqConfigFile
    \/ CallCheckCrcNetworkManagerDispatcherFile
    \/ CallFixCrcNetworkManagerDispatcherFile
    \/ CallRemoveCrcNetworkManagerDispatcherFile

Spec == Init /\ [][Next]_vars

---------------------------------------------------------------------------
(* The three configuration-file checks of dnsmasqPreflightChecks and       *)
(* systemdResolvedPreflightChecks: the names of their operations, the path *)
(* they work on and the content and mode their fix writes.                 *)
ConfigFileChecks ==
    {[check |-> "checkCrcNetworkManagerConfig",
      fix |-> "fixCrcNetworkManagerConfig",
      cleanup |-> "removeCrcNetworkManagerConfig",
      path |-> crcNetworkManagerConfigPath,
      content |-> crcNetworkManagerConfig, perms |-> PermConfig],
     [check |-> "checkCrcDnsmasqConfigFile",
      fix |-> "fixCrcDnsmasqConfigFile",
      cleanup |-> "removeCrcDnsmasqConfigFile",
      path |-> crcDnsmasqConfigPath,
      content |-> crcDnsmasqConfig, perms |-> PermConfig],
     [check |-> "checkCrcNetworkManagerDispatcherFile",
      fix |-> "fixCrcNetworkManagerDispatcherFile",
      cleanup |-> "removeCrcNetworkManagerDispatcherFile",
      path |-> crcNetworkManagerDispatcherPath,
      content |-> crcNetworkManagerDispatcherConfig,
      perms |-> PermDispatcher]}

ServiceCheckOps ==
    {"checkSystemdNetworkdIsNotRunning", "checkNetworkManagerIsRunning",
     "checkSystemdResolvedIsRunning"}

CheckOps ==
    ServiceCheckOps \cup {"checkNetworkManagerInstalled"}
    \cup {c.check : c \in ConfigFileChecks}

FixOps == {c.fix : c \in ConfigFileChecks}

CleanupOps == {c.cleanup : c \in ConfigFileChecks}

(* What the check operation of a configuration-file check returns on f.    *)
CheckResult(c, f) ==
    IF c.check = "checkCrcNetworkManagerConfig"
    THEN checkCrcNetworkManagerConfig(f)
    ELSE IF c.check = "checkCrcDnsmasqConfigFile"
         THEN checkCrcDnsmasqConfigFile(f)
         ELSE checkCrcNetworkManagerDispatcherFile(f)

(* Observations on the primitive calls of an operation.                    *)
Made(cs, prim) == \E i \in 1..Len(cs) : cs[i].prim = prim

MadeWith(cs, prim, res) ==
    \E i \in 1..Len(cs) : cs[i].prim = prim /\ cs[i].res = res

AnyFailed(cs) == \E i \in 1..Len(cs) : cs[i].res = "err"

---------------------------------------------------------------------------
(* The registries. A Check is its configKeySuffix, the names of its check, *)
(* fix and cleanup functions ("nil" for a field the literal leaves unset)  *)
(* and its flags.                                                          *)
Check(key, check, fix, cleanup, flags) ==
    [configKeySuffix |-> key, check |-> check, fix |-> fix,
     cleanup |-> cleanup, flags |-> flags]

(* Variant of nmPreflightChecks whose second entry lost its NoFix flag.    *)
nmPreflightChecks_FlagForgotten ==
    <<Check("check-systemd-networkd-running",
            "checkSystemdNetworkdIsNotRunning", "nil", "nil", {"NoFix"}),
      Check("check-network-manager-installed",
            "checkNetworkManagerInstalled", "nil", "nil", {}),
      Check("check-network-manager-running",
            "checkNetworkManagerIsRunning", "nil", "nil", {"NoFix"})>>

nmPreflightChecks ==
    <<Check("check-systemd-networkd-running",
            "checkSystemdNetworkdIsNotRunning", "nil", "nil", {"NoFix"}),
      Check("check-network-manager-installed",
            "checkNetworkManagerInstalled", "nil", "nil", {"NoFix"}),
      Check("check-network-manager-running",
            "checkNetworkManagerIsRunning", "nil", "nil", {"NoFix"})>>

dnsmasqPreflightChecks ==
    <<Check("check-network-manager-config",
            "checkCrcNetworkManagerConfig", "fixCrcNetworkManagerConfig",
            "removeCrcNetworkManagerConfig", {}),
      Check("check-crc-dnsmasq-file",
            "checkCrcDnsmasqConfigFile", "fixCrcDnsmasqConfigFile",
            "removeCrcDnsmasqConfigFile", {})>>

systemdResolvedPreflightChecks ==
    <<Check("check-systemd-resolved-running",
            "checkSystemdResolvedIsRunning", "nil", "nil", {"NoFix"}),
      Check("check-crc-nm-dispatcher-file",
            "checkCrcNetworkManagerDispatcherFile",
            "fixCrcNetworkManagerDispatcherFile",
            "removeCrcNetworkManagerDispatcherFile", {})>>

Range(s) == {s[i] : i \in 1..Len(s)}

RegisteredChecks ==
    Range(nmPreflightChecks) \cup Range(dnsmasqPreflightChecks)
    \cup Range(systemdResolvedPreflightChecks)

---------------------------------------------------------------------------
(* C1. Detect-remediate closure: whenever the fix of a configuration-file  *)
(* check has returned success, the file at the check's path holds exactly  *)
(* the expected content with the mode passed to the write (0644, 0755 for  *)
(* the dispatcher script), and a check called immediately after that fix   *)
(* returns success and leaves that file as it is.                          *)
C1_DetectRemediateClosure ==
    \A c \in ConfigFileChecks :
        /\ (op = c.fix /\ ~err) => fs[c.path] = File(c.content, c.perms)
        /\ (prevOp = c.fix /\ ~prevErr /\ op = c.check) =>
               (~err /\ fs[c.path] = File(c.content, c.perms))

C1_Witness ==
    \E c \in ConfigFileChecks :
        /\ c.check = "checkCrcNetworkManagerDispatcherFile"
        /\ prevOp = c.fix /\ ~prevErr
        /\ op = c.check /\ ~err
        /\ fs[c.path] = File(crcNetworkManagerDispatcherConfig, PermDispatcher)

(* C2 as stated: a second fix called right after a successful fix returns  *)
(* success.                                                                *)
C2_SecondFixAlwaysSucceeds ==
    \A c \in ConfigFileChecks :
        (prevOp = c.fix /\ ~prevErr /\ op = c.fix) => ~err

(* C2, amended. After a fix that returned success the check passes; a      *)
(* second fix called right after it makes the same write and reload again  *)
(* and returns success exactly when both succeed: it fails only on a       *)
(* failing primitive, never because the state is already the expected one. *)
C2_Idempotence ==
    \A c \in ConfigFileChecks :
        /\ (op = c.fix /\ ~err) => ~CheckResult(c, fs).err
        /\ (prevOp = c.fix /\ ~prevErr /\ op = c.fix) =>
               /\ err <=> AnyFailed(calls)
               /\ ~err => ~CheckResult(c, fs).err

C2_Witness ==
    \E c \in ConfigFileChecks :
        /\ prevOp = c.fix /\ ~prevErr
        /\ op = c.fix /\ ~err
        /\ ~CheckResult(c, fs).err

C4_PartialFailureSurfaced ==
    \A c \in ConfigFileChecks :
        (/\ op = c.fix
         /\ MadeWith(calls, "WriteToFileAsRoot", "ok")
         /\ MadeWith(calls, "Reload", "err")) =>
            (err /\ fs[c.path] = File(c.content, c.perms))

C4_Witness ==
    \E c \in ConfigFileChecks :
        /\ op = c.fix /\ err
        /\ calls = <<Call("WriteToFileAsRoot", c.path, "ok"),
                     Call("Reload", "NetworkManager", "err")>>
        /\ fs[c.path] = File(c.content, c.perms)

(* C5. Undo short-circuits without 'nmcli': a cleanup called while 'nmcli' *)
(* is not on the search path returns success, makes no call but the        *)
(* lookup (no stat, remove or reload) and leaves the filesystem unchanged, *)
(* whether or not the file exists.                                         *)
C5_UndoShortCircuits ==
    [][\A c \in ConfigFileChecks :
        (op' = c.cleanup /\ ~nmcli) =>
            /\ ~err'
            /\ calls' = <<Call("LookPath", "nmcli", "err")>>
            /\ fs' = fs]_vars

C5_Witness ==
    \E c \in ConfigFileChecks :
        /\ op = c.cleanup /\ ~nmcli /\ ~err
        /\ fs[c.path].exists
        /\ ~Made(calls, "Stat")

(* C6 as stated: with 'nmcli' installed and no file at the path, cleanup   *)
(* returns success and does not call the privileged remove.                *)
C6_NoFileNoRemove ==
    [][\A c \in ConfigFileChecks :
        (op' = c.cleanup /\ nmcli /\ ~fs[c.path].exists) =>
            /\ ~err'
            /\ ~Made(calls', "RemoveFileAsRoot")
            /\ fs' = fs]_vars

(* C6, amended. With 'nmcli' installed and no file at the path, cleanup    *)
(* leaves the filesystem unchanged; when its stat reports that the file    *)
(* does not exist it returns success and calls neither the privileged      *)
(* remove nor the reload.                                                  *)
C6_UndoSafeWhenNothingDone ==
    [][\A c \in ConfigFileChecks :
        (op' = c.cleanup /\ nmcli /\ ~fs[c.path].exists) =>
            /\ fs' = fs
            /\ MadeWith(calls', "Stat", "notexist") =>
                   /\ ~err'
                   /\ ~Made(calls', "RemoveFileAsRoot")
                   /\ ~Made(calls', "Reload")]_vars

C6_Witness ==
    \E c \in ConfigFileChecks :
        /\ op = c.cleanup /\ nmcli /\ ~err
        /\ calls = <<Call("LookPath", "nmcli", "ok"),
                     Call("Stat", c.path, "notexist")>>
        /\ ~fs[c.path].exists

(* C7. Undo all-or-nothing: with 'nmcli' installed and the file present,   *)
(* cleanup attempts the privileged remove and returns success only if the  *)
(* remove and the reload both succeed; a failed remove gives an error and  *)
(* no reload; a failed reload after a successful remove gives an error     *)
(* although the file is gone.                                              *)
C7_UndoAllOrNothing ==
    [][\A c \in ConfigFileChecks :
        (op' = c.cleanup /\ nmcli /\ fs[c.path].exists) =>
            /\ Made(calls', "RemoveFileAsRoot")
            /\ ~err' => (/\ MadeWith(calls', "RemoveFileAsRoot", "ok")
                         /\ MadeWith(calls', "Reload", "ok"))
            /\ MadeWith(calls', "RemoveFileAsRoot", "err") =>
                   (err' /\ ~Made(calls', "Reload") /\ fs' = fs)
            /\ (/\ MadeWith(calls', "RemoveFileAsRoot", "ok")
                /\ MadeWith(calls', "Reload", "err")) =>
                   (err' /\ ~fs'[c.path].exists)]_vars

C7_Witness ==
    \E c \in ConfigFileChecks :
        /\ op = c.cleanup /\ nmcli /\ err
        /\ MadeWith(calls, "Stat", "ok")
        /\ MadeWith(calls, "RemoveFileAsRoot", "ok")
        /\ MadeWith(calls, "Reload", "err")
        /\ ~fs[c.path].exists

(* C8. Errors are never hidden: an operation one of whose primitive calls  *)
(* (content comparison, privileged write or remove, reload, status query,  *)
(* executable lookup) returned an error returns an error itself, except    *)
(* for the failed 'nmcli' lookup inside cleanup.                           *)
C8_ErrorsNeverHidden ==
    \A i \in 1..Len(calls) :
        (/\ calls[i].res = "err"
         /\ ~(op \in CleanupOps /\ calls[i].prim = "LookPath")) => err

(* C9. Service-state checks succeed only on the expected status: the two   *)
(* "is running" checks only on Running, checkSystemdNetworkdIsNotRunning   *)
(* only on a queried status other than Running.                            *)
C9_ServiceChecksExpectedStatus ==
    /\ (op \in {"checkNetworkManagerIsRunning", "checkSystemdResolvedIsRunning"}
        /\ ~err) => MadeWith(calls, "Status", "Running")
    /\ (op = "checkSystemdNetworkdIsNotRunning" /\ ~err) =>
           \E s \in States \ {"Running"} : MadeWith(calls, "Status", s)

(* C10. Detect is read-only: every check operation leaves the files and    *)
(* the presence of 'nmcli' as they were, whatever it returns, and calls no *)
(* write, remove or reload.                                                *)
C10_DetectReadOnly ==
    [][op' \in CheckOps =>
        /\ fs' = fs
        /\ nmcli' = nmcli
        /\ ~Made(calls', "WriteToFileAsRoot")
        /\ ~Made(calls', "RemoveFileAsRoot")
        /\ ~Made(calls', "Reload")]_vars

C10_Witness ==
    \E c \in ConfigFileChecks :
        /\ op = c.check /\ err
        /\ fs[c.path].exists
        /\ fs[c.path].content \in ForeignContents

(* C11. NoFix registry invariant: in the three registries every Check      *)
(* flagged NoFix has neither a fix nor a cleanup, and every other Check    *)
(* has both; so after any failed check the runner either skips the fix     *)
(* (NoFix) or finds a fix function to call, and every fix or cleanup that  *)
(* runs belongs to a Check that is not flagged NoFix.                      *)
C11_NoFixRegistryInvariant ==
    /\ \A e \in RegisteredChecks :
           /\ "NoFix" \in e.flags => (e.fix = "nil" /\ e.cleanup = "nil")
           /\ "NoFix" \notin e.flags => (e.fix # "nil" /\ e.cleanup # "nil")
    /\ \A e \in RegisteredChecks :
           (op = e.check /\ err /\ "NoFix" \notin e.flags) =>
               (e.fix \in FixOps /\ e.cleanup \in CleanupOps)
    /\ op \in FixOps =>
           \E e \in RegisteredChecks : e.fix = op /\ "NoFix" \notin e.flags
    /\ op \in CleanupOps =>
           \E e \in RegisteredChecks : e.cleanup = op /\ "NoFix" \notin e.flags

C11_Witness ==
    \E e \in RegisteredChecks :
        /\ op = e.check /\ err
        /\ "NoFix" \in e.flags
        /\ e.fix = "nil"

(* Number of calls of a primitive among the calls of an operation.         *)
CountCalls(cs, prim) == Cardinality({i \in 1..Len(cs) : cs[i].prim = prim})

(* C12. Step order inside fix: every fix attempts the privileged write     *)
(* exactly once and as its first call; it requests at most one reload, as  *)
(* its second call and only after a successful write; when the write fails *)
(* it returns an error and requests no reload.                             *)
C12_FixStepOrder ==
    \A c \in ConfigFileChecks :
        op = c.fix =>
            /\ Len(calls) >= 1
            /\ calls[1].prim = "WriteToFileAsRoot" /\ calls[1].arg = c.path
            /\ CountCalls(calls, "WriteToFileAsRoot") = 1
            /\ CountCalls(calls, "Reload") <= 1
            /\ Made(calls, "Reload") =>
                   (/\ calls[1].res = "ok"
                    /\ Len(calls) = 2 /\ calls[2].prim = "Reload")
            /\ calls[1].res = "ok" => Made(calls, "Reload")
            /\ calls[1].res = "err" => (err /\ ~Made(calls, "Reload"))

C12_Witness ==
    \E c \in ConfigFileChecks :
        /\ op = c.fix /\ err
        /\ calls = <<Call("WriteToFileAsRoot", c.path, "err")>>

(* C13. The precondition is used only by undo: the check and the fix of a  *)
(* configuration-file check never look 'nmcli' up, and what they return    *)
(* and do to the file is fixed by the filesystem and by the outcomes of    *)
(* the write and the reload alone, so it is the same with and without      *)
(* 'nmcli'; in particular a check or fix that succeeds without 'nmcli'     *)
(* found the expected content, or wrote and reloaded successfully.         *)
C13_PreconditionOnlyInUndo ==
    [][\A c \in ConfigFileChecks :
        /\ op' = c.check =>
               /\ ~Made(calls', "LookPath")
               /\ err' <=> (FileContentMatches(fs, c.path, c.content) # "ok")
               /\ fs' = fs
        /\ op' = c.fix =>
               /\ ~Made(calls', "LookPath")
               /\ err' <=> AnyFailed(calls')
               /\ ~err' <=> (/\ MadeWith(calls', "WriteToFileAsRoot", "ok")
                             /\ MadeWith(calls', "Reload", "ok"))
               /\ fs' = IF MadeWith(calls', "WriteToFileAsRoot", "ok")
                        THEN [fs EXCEPT ![c.path] = File(c.content, c.perms)]
                        ELSE fs]_vars

C13_Witness ==
    \E c \in ConfigFileChecks :
        /\ ~nmcli
        /\ prevOp = c.check /\ prevErr
        /\ op = c.fix /\ err
        /\ MadeWith(calls, "WriteToFileAsRoot", "err")

(* C14. Checks are independent on the filesystem: the fix and the cleanup  *)
(* of a configuration-file check change at most the file at that check's   *)
(* own path; the files of the other two checks stay as they are, and so    *)
(* does what their check returns.                                          *)
C14_ChecksIndependent ==
    [][\A c \in ConfigFileChecks :
        op' \in {c.fix, c.cleanup} =>
            /\ \A p \in Paths \ {c.path} : fs'[p] = fs[p]
            /\ \A d \in ConfigFileChecks \ {c} :
                   /\ CheckResult(d, fs').err = CheckResult(d, fs).err
                   /\ CheckResult(d, fs').calls = CheckResult(d, fs).calls
            /\ \A i \in 1..Len(calls') :
                   calls'[i].prim \in {"WriteToFileAsRoot", "Stat",
                                       "RemoveFileAsRoot"} =>
                       calls'[i].arg = c.path]_vars

C14_Witness ==
    \E c \in ConfigFileChecks : \E d \in ConfigFileChecks \ {c} :
        /\ prevOp = c.fix /\ ~prevErr
        /\ op = c.cleanup /\ ~err /\ nmcli
        /\ ~fs[c.path].exists
        /\ fs[d.path].exists /\ fs[d.path].content \in ForeignContents
        /\ CheckResult(d, fs).err

(* C15 as stated: a reload is requested if and only if a file was removed  *)
(* by the same call, and never when the file is absent.                    *)
C15_NoReloadWhenFileAbsent ==
    [][\A c \in ConfigFileChecks :
        op' = c.cleanup =>
            /\ Made(calls', "Reload") <=>
                   (fs[c.path].exists /\ ~fs'[c.path].exists)
            /\ ~fs[c.path].exists => ~Made(calls', "Reload")]_vars

(* C15, amended. Cleanup requests a reload of NetworkManager if and only   *)
(* if its privileged remove returned success in the same call: no reload   *)
(* is requested when 'nmcli' is absent, when stat reports that the file    *)
(* does not exist, or when the removal fails.                              *)
C15_ReloadIffRemoved ==
    [][\A c \in ConfigFileChecks :
        op' = c.cleanup =>
            /\ Made(calls', "Reload") <=>
                   MadeWith(calls', "RemoveFileAsRoot", "ok")
            /\ CountCalls(calls', "Reload") <= 1
            /\ ~nmcli => ~Made(calls', "Reload")
            /\ MadeWith(calls', "Stat", "notexist") => ~Made(calls', "Reload")
            /\ MadeWith(calls', "RemoveFileAsRoot", "err") =>
                   ~Made(calls', "Reload")]_vars

C15_Witness ==
    \E c \in ConfigFileChecks :
        /\ op = c.cleanup /\ nmcli
        /\ calls = <<Call("LookPath", "nmcli", "ok"),
                     Call("Stat", c.path, "ok"),
                     Call("RemoveFileAsRoot", c.path, "ok"),
                     Call("Reload", "NetworkManager", "ok")>>
        /\ ~fs[c.path].exists

(* C16. Cleanup removes the file whatever its content: with 'nmcli'        *)
(* installed, cleanup attempts the removal whenever stat does not report   *)
(* not-exist, so of any file present, foreign content included, and the    *)
(* file is gone when the removal succeeds; no operation puts a foreign     *)
(* content back, so after fix then cleanup both successful the file that   *)
(* was there before the fix is not restored.                               *)
C16_CleanupRemovesAnyContent ==
    /\ [][\A c \in ConfigFileChecks :
            (op' = c.cleanup /\ nmcli) =>
                /\ ~MadeWith(calls', "Stat", "notexist") =>
                       Made(calls', "RemoveFileAsRoot")
                /\ fs[c.path].exists => Made(calls', "RemoveFileAsRoot")
                /\ MadeWith(calls', "RemoveFileAsRoot", "ok") =>
                       fs'[c.path] = NoFile]_vars
    /\ [][\A p \in Paths :
            fs'[p].content \in ForeignContents => fs'[p] = fs[p]]_vars
    /\ [](\A c \in ConfigFileChecks :
            (prevOp = c.fix /\ ~prevErr /\ op = c.cleanup) =>
                fs[c.path].content \notin ForeignContents)

C16_Witness ==
    \E c \in ConfigFileChecks :
        /\ prevOp = c.check /\ prevErr
        /\ op = c.cleanup /\ nmcli /\ ~err
        /\ MadeWith(calls, "Stat", "ok")
        /\ MadeWith(calls, "RemoveFileAsRoot", "ok")
        /\ fs[c.path] = NoFile

====
